---- MODULE Spec2Model ----
(***************************************************************************)
(* The sponsor relay worker (src/src/index.ts): the fetch handler, its     *)
(* /relay pipeline and the in-memory fixed-window rate limiter.            *)
(*                                                                         *)
(* The handler is an async function.  Between two awaits its code runs to  *)
(* completion (one JavaScript thread), so each action below is one such    *)
(* segment: Arrive (entry up to `await request.json()`), BodyParsed (up to *)
(* `await sponsorTransaction`), SponsorSettled (up to `await               *)
(* broadcastTransaction`), BroadcastSettled (to the response).  Several    *)
(* requests may be in flight and interleave at the awaits.                 *)
(***************************************************************************)
EXTENDS Integers, Sequences, FiniteSets, TLC

(***************************************************************************)
(* Bounds of the model.                                                    *)
(***************************************************************************)
\* requests that may be in flight at once
MaxInFlight == 2
\* the clock is observed at 0, and at k * RATE_WINDOW_MS and 1 ms later, k = 1..MaxWindows
MaxWindows == 1
\* the per-window call ordinal is counted up to RATE_LIMIT + MaxOver
MaxOver == 1

(***************************************************************************)
(* Program constants.                                                      *)
(***************************************************************************)
APP_ID == "x402-relay"
RATE_LIMIT == 10
RATE_WINDOW_MS == 60 * 1000

(***************************************************************************)
(* JavaScript values, as far as the handler looks at them.  Text is a      *)
(* sequence of one-character strings so that startsWith and slice are      *)
(* computed, not assumed.                                                  *)
(***************************************************************************)
undefined == "undefined!"

JsUndefined == [t |-> "undefined", v |-> <<>>]
JsString(s) == [t |-> "string", v |-> s]
JsNumber(d) == [t |-> "number", v |-> d]
JsObject == [t |-> "object", v |-> <<>>]

\* ToBoolean, as `!body.transaction` applies it
Truthy(x) ==
  CASE x.t = "undefined" -> FALSE
    [] x.t = "string" -> Len(x.v) > 0
    [] x.t = "number" -> x.v # <<"0">>
    [] OTHER -> TRUE

\* `x ? ... ` on an optional string field of the broadcast result
Present(s) == s # undefined

\* String.prototype.startsWith("0x")
StartsWith0x(s) == Len(s) >= 2 /\ s[1] = "0" /\ s[2] = "x"

\* String.prototype.slice(2)
Slice2(s) == SubSeq(s, 3, Len(s))

\* fault variant: the prefix is not removed
StripPrefixKept(s) == s

\* body.transaction.startsWith("0x") ? body.transaction.slice(2) : body.transaction
StripPrefix(s) == IF StartsWith0x(s) THEN Slice2(s) ELSE s

\* e instanceof Error ? e.message : "Unknown error"
ErrMessage(e) == IF e.isError THEN e.message ELSE "Unknown error"

Error(m) == [isError |-> TRUE, message |-> m]
NonError == [isError |-> FALSE, message |-> ""]
NoError == [isError |-> FALSE, message |-> "none"]

(***************************************************************************)
(* The external transaction library, by its interface.  The wire format is *)
(* stood in for by two hex digits: the authorization kind ("4" standard,   *)
(* "5" sponsored, the values of AuthType) and the signer.  Every other     *)
(* text makes deserializeTransaction throw.                                *)
(***************************************************************************)
AuthStandard == "Standard"
AuthSponsored == "Sponsored"
Signers == {"a", "b"}

NoTx == [authType |-> "none", signer |-> <<>>]

Decodes(h) == Len(h) = 2 /\ h[1] \in {"4", "5"} /\ h[2] \in Signers

deserializeTransaction(h) ==
  [authType |-> IF h[1] = "5" THEN AuthSponsored ELSE AuthStandard,
   signer |-> <<h[2]>>]

\* Buffer.from(signer).toString("hex"): two hex digits per character code
CharHex(c) ==
  CASE c = "a" -> <<"6", "1">>
    [] c = "b" -> <<"6", "2">>
    [] OTHER -> <<"3", "f">>

RECURSIVE ToHex(_)
ToHex(s) == IF s = <<>> THEN <<>> ELSE CharHex(Head(s)) \o ToHex(Tail(s))

\* fault variant: the key keeps only the first hex digit of the signer
SenderHexTruncated(signer) == SubSeq(ToHex(signer), 1, 1)

SenderHex(signer) == ToHex(signer)

SenderKeys == {SenderHex(<<c>>) : c \in Signers}

(***************************************************************************)
(* Inputs.                                                                 *)
(***************************************************************************)
Methods == {"OPTIONS", "GET", "POST"}
Paths == {"/health", "/relay", "/"}

HexTexts == {<<"5", "a">>, <<"5", "b">>, <<"4", "a">>, <<"z", "z">>, <<>>}
TxTexts == HexTexts \cup {<<"0", "x">> \o h : h \in {<<"5", "a">>}}

TransactionFields ==
  {JsUndefined, JsObject, JsNumber(<<"7">>)} \cup {JsString(s) : s \in TxTexts}

\* what `await request.json()` gives: a rejection, null, or an object
NoBody == [kind |-> "none", transaction |-> JsUndefined]
Bodies ==
  {[kind |-> "invalid", transaction |-> JsUndefined],
   [kind |-> "null", transaction |-> JsUndefined]}
    \cup {[kind |-> "object", transaction |-> f] : f \in TransactionFields}

\* what `await sponsorTransaction(...)` gives
SponsorOutcomes ==
  {[ok |-> TRUE, e |-> NoError],
   [ok |-> FALSE, e |-> Error("sponsor failed")],
   [ok |-> FALSE, e |-> NonError]}

\* what `await broadcastTransaction(...)` gives
NoResult == [txid |-> undefined, error |-> undefined, reason |-> undefined]
BroadcastResults ==
  [txid : {undefined, "0xabc"},
   error : {undefined, "transaction rejected"},
   reason : {undefined, "BadNonce"}]
BroadcastOutcomes ==
  {[ok |-> TRUE, e |-> NoError, result |-> b] : b \in BroadcastResults}
    \cup {[ok |-> FALSE, e |-> Error("fetch failed"), result |-> NoResult],
          [ok |-> FALSE, e |-> NonError, result |-> NoResult]}

\* the instants at which the clock is observed
Times == {0} \cup {k * RATE_WINDOW_MS + d : k \in 1..MaxWindows, d \in {0, 1}}

(***************************************************************************)
(* State.                                                                  *)
(***************************************************************************)
VARIABLES
  rateLimitMap,   \* Map<string, {count, resetAt}>: a function on the keys set
  now,            \* Date.now()
  env,            \* SPONSOR_PRIVATE_KEY, STACKS_NETWORK, LOGS
  inflight,       \* the requests being handled, by slot
  last,           \* history: the exchange the step just taken ended or admitted
  window,         \* per key: the calls of checkRateLimit in the current window
  workload,       \* whose transactions arrive, and how many requests at once
  admissions      \* history: when the calls of checkRateLimit for one key were admitted

vars == <<rateLimitMap, now, env, inflight, last, window, workload, admissions>>

Slots == 1..MaxInFlight

(***************************************************************************)
(* Configuration (Env): the secret, the network and the log binding.  The  *)
(* handler casts env.LOGS to LogsRPC without looking at it: a binding that *)
(* is a LogsRPC answers every call with a promise; of any other value     *)
(* nothing is known, and a call may throw.                                 *)
(***************************************************************************)
Configs ==
  {[SPONSOR_PRIVATE_KEY |-> "sk", STACKS_NETWORK |-> "mainnet"],
   [SPONSOR_PRIVATE_KEY |-> undefined, STACKS_NETWORK |-> "testnet"],
   [SPONSOR_PRIVATE_KEY |-> "", STACKS_NETWORK |-> "mainnet"]}
Envs ==
  {[SPONSOR_PRIVATE_KEY |-> c.SPONSOR_PRIVATE_KEY, STACKS_NETWORK |-> c.STACKS_NETWORK,
    LOGS |-> l] : c \in Configs, l \in {"LogsRPC", "other"}}

(***************************************************************************)
(* The workload: the signers whose transactions are submitted and the      *)
(* number of requests the runtime has in flight at once.  Two are          *)
(* explored: every signer, one request at a time; and one signer, with     *)
(* MaxInFlight requests interleaved.                                       *)
(***************************************************************************)
Workloads ==
  {[signers |-> Signers, concurrency |-> 1],
   [signers |-> {"a"}, concurrency |-> MaxInFlight]}

\* the bodies a workload submits: the decodable ones are of its signers
Submits(wl, body) ==
  LET f == body.transaction
  IN (body.kind = "object" /\ f.t = "string" /\ Decodes(StripPrefix(f.v)))
       => StripPrefix(f.v)[2] \in wl.signers

\* what a log call does when invoked: it returns a promise, which goes to
\* ctx.waitUntil and whose settling the handler never observes, or it throws
LogOutcomes ==
  IF env.LOGS = "LogsRPC" THEN {"promise"} ELSE {"promise", "throws"}

\* !env.SPONSOR_PRIVATE_KEY
KeyMissing(k) == k = undefined \/ k = ""

(***************************************************************************)
(* An exchange: one request, what the handler did for it, and its end.     *)
(* calls and logs list the stage functions and the log calls in the order  *)
(* the handler invoked them; admit is what checkRateLimit answered; ord is *)
(* history: the place of that call among the calls of its window, kept     *)
(* while `last` shows the exchange.                                        *)
(***************************************************************************)
NoSponsor == [ok |-> FALSE, e |-> NoError]
NoBroadcast == [ok |-> FALSE, e |-> NoError, result |-> NoResult]

Idle ==
  [pc |-> "idle", method |-> "", path |-> "", body |-> NoBody,
   tx |-> NoTx, senderHex |-> <<>>, admit |-> "none", ord |-> 0,
   sponsor |-> NoSponsor, broadcast |-> NoBroadcast,
   calls |-> <<>>, logs |-> <<>>,
   result |-> "none", status |-> 0, ctype |-> "", cors |-> <<>>,
   payload |-> <<>>, thrown |-> NoError]

corsHeaders ==
  [h \in {"Access-Control-Allow-Origin", "Access-Control-Allow-Methods",
          "Access-Control-Allow-Headers"} |->
     CASE h = "Access-Control-Allow-Origin" -> "*"
       [] h = "Access-Control-Allow-Methods" -> "GET, POST, OPTIONS"
       [] OTHER -> "Content-Type"]

\* new Response(body, { status, headers })
Respond(x, status, ctype, cors, payload) ==
  [x EXCEPT !.pc = "done", !.result = "response", !.status = status,
            !.ctype = ctype, !.cors = cors, !.payload = payload]

\* JSON.stringify of an object: a property whose value is undefined is left out
JSONstringify(o) == [k \in {j \in DOMAIN o : o[j] # undefined} |-> o[k]]

JsonResponse(x, status, o) ==
  Respond(x, status, "application/json", corsHeaders, JSONstringify(o))

\* an exception leaves fetch: the runtime, not the handler, answers
Escape(x, e) == [x EXCEPT !.pc = "done", !.result = "exception", !.thrown = e]

Call(x, f) == [x EXCEPT !.calls = Append(@, f)]

\* ctx.waitUntil(logs.<level>(APP_ID, message, context)); o is what the call does
Log(x, level, message, context, o) ==
  [x EXCEPT !.logs = Append(@, [app |-> APP_ID, level |-> level, message |-> message,
                                 context |-> context, outcome |-> o])]

LogThrown == Error("logs call threw")

(***************************************************************************)
(* The rate limiter.                                                       *)
(***************************************************************************)
MapSet(map, k, v) == [a \in DOMAIN map \cup {k} |-> IF a = k THEN v ELSE map[a]]

\* fault variant: the capacity test lets one request too many through
checkRateLimitOffByOne(map, t, address) ==
  IF address \notin DOMAIN map \/ t > map[address].resetAt
  THEN [admit |-> TRUE,
        map |-> MapSet(map, address, [count |-> 1, resetAt |-> t + RATE_WINDOW_MS])]
  ELSE IF map[address].count > RATE_LIMIT
  THEN [admit |-> FALSE, map |-> map]
  ELSE [admit |-> TRUE,
        map |-> [map EXCEPT ![address].count = @ + 1]]

\* fault variant: the increment of an admitted request is lost
checkRateLimitLostUpdate(map, t, address) ==
  IF address \notin DOMAIN map \/ t > map[address].resetAt
  THEN [admit |-> TRUE,
        map |-> MapSet(map, address, [count |-> 1, resetAt |-> t + RATE_WINDOW_MS])]
  ELSE IF map[address].count >= RATE_LIMIT
  THEN [admit |-> FALSE, map |-> map]
  ELSE [admit |-> TRUE, map |-> map]

\* fault variant: a rejection restarts the window
checkRateLimitRejectExtends(map, t, address) ==
  IF address \notin DOMAIN map \/ t > map[address].resetAt
  THEN [admit |-> TRUE,
        map |-> MapSet(map, address, [count |-> 1, resetAt |-> t + RATE_WINDOW_MS])]
  ELSE IF map[address].count >= RATE_LIMIT
  THEN [admit |-> FALSE, map |-> [map EXCEPT ![address].resetAt = t + RATE_WINDOW_MS]]
  ELSE [admit |-> TRUE,
        map |-> [map EXCEPT ![address].count = @ + 1]]

\* checkRateLimit(address) at Date.now() = t: the answer and the map after it
checkRateLimit(map, t, address) ==
  IF address \notin DOMAIN map \/ t > map[address].resetAt
  THEN [admit |-> TRUE,
        map |-> MapSet(map, address, [count |-> 1, resetAt |-> t + RATE_WINDOW_MS])]
  ELSE IF map[address].count >= RATE_LIMIT
  THEN [admit |-> FALSE, map |-> map]
  ELSE [admit |-> TRUE,
        map |-> [map EXCEPT ![address].count = @ + 1]]

(***************************************************************************)
(* The windows as the specification counts them (history, not program      *)
(* state): a call of a key opens a window when the key has none or the     *)
(* clock has passed the window's end; every other call is one more call of *)
(* the open window; admitted counts those the limiter let through.  Both   *)
(* stop counting at RATE_LIMIT + MaxOver.                                  *)
(***************************************************************************)
WindowCall(w, t, key, admit) ==
  LET n == IF admit THEN 1 ELSE 0
      Up(c, d) == IF c + d <= RATE_LIMIT + MaxOver THEN c + d ELSE c
  IN IF key \notin DOMAIN w \/ t > w[key].resetAt
     THEN MapSet(w, key, [resetAt |-> t + RATE_WINDOW_MS, calls |-> 1, admitted |-> n])
     ELSE [w EXCEPT ![key].calls = Up(@, 1), ![key].admitted = Up(@, n)]

(***************************************************************************)
(* The handler, segment by segment.  A segment of the try block ends in    *)
(* one of three ways: the exchange goes on or is answered (Ok), or an      *)
(* exception is on its way to the outermost catch (Throw).  Each carries   *)
(* the rate-limit map and the window history as the segment leaves them.   *)
(***************************************************************************)
Ok(x, map, w) == [k |-> "ok", x |-> x, e |-> NoError, map |-> map, w |-> w]
Throw(x, e, map, w) == [k |-> "throw", x |-> x, e |-> e, map |-> map, w |-> w]

\* a log call followed by the JSON response of the same branch
LogThenRespond(x, level, message, context, o, status, obj, map, w) ==
  LET xl == Log(x, level, message, context, o)
  IN IF o = "throws" THEN Throw(xl, LogThrown, map, w)
     ELSE Ok(JsonResponse(xl, status, obj), map, w)

\* fault variant: sponsorTransaction is called whatever the rate limiter answered
AdmitAndSponsorAlways(x, map, t, w, o) ==
  LET senderHex == SenderHex(x.tx.signer)
      rl == checkRateLimit(map, t, senderHex)
      w1 == WindowCall(w, t, senderHex, rl.admit)
      x1 == [Call(x, "checkRateLimit") EXCEPT
               !.senderHex = senderHex,
               !.admit = IF rl.admit THEN "admitted" ELSE "rejected",
               !.ord = w1[senderHex].calls]
  IN IF KeyMissing(env.SPONSOR_PRIVATE_KEY)
     THEN LogThenRespond(x1, "error", "Sponsor key not configured", {"request_id"}, o,
                         500, [error |-> "Service not configured",
                               details |-> "Sponsor key missing"],
                         rl.map, w1)
     ELSE Ok([Call(x1, "sponsorTransaction") EXCEPT !.pc = "sponsor"], rl.map, w1)

\* fault variant: the sponsor key is looked at only after sponsorTransaction was called
AdmitAndSponsorNoKeyCheck(x, map, t, w, o) ==
  LET senderHex == SenderHex(x.tx.signer)
      rl == checkRateLimit(map, t, senderHex)
      w1 == WindowCall(w, t, senderHex, rl.admit)
      x1 == [Call(x, "checkRateLimit") EXCEPT
               !.senderHex = senderHex,
               !.admit = IF rl.admit THEN "admitted" ELSE "rejected",
               !.ord = w1[senderHex].calls]
  IN IF ~rl.admit
     THEN LogThenRespond(x1, "warn", "Rate limit exceeded", {"request_id", "sender"}, o,
                         429, [error |-> "Rate limit exceeded",
                               details |-> "Maximum 10 requests per minute"],
                         rl.map, w1)
     ELSE Ok([Call(x1, "sponsorTransaction") EXCEPT !.pc = "sponsor"], rl.map, w1)

\* lines 226-268: sender key, rate limit, sponsor key, the call of sponsorTransaction
AdmitAndSponsor(x, map, t, w, o) ==
  LET senderHex == SenderHex(x.tx.signer)
      rl == checkRateLimit(map, t, senderHex)
      w1 == WindowCall(w, t, senderHex, rl.admit)
      x1 == [Call(x, "checkRateLimit") EXCEPT
               !.senderHex = senderHex,
               !.admit = IF rl.admit THEN "admitted" ELSE "rejected",
               !.ord = w1[senderHex].calls]
  IN IF ~rl.admit
     THEN LogThenRespond(x1, "warn", "Rate limit exceeded", {"request_id", "sender"}, o,
                         429, [error |-> "Rate limit exceeded",
                               details |-> "Maximum 10 requests per minute"],
                         rl.map, w1)
     ELSE IF KeyMissing(env.SPONSOR_PRIVATE_KEY)
     THEN LogThenRespond(x1, "error", "Sponsor key not configured", {"request_id"}, o,
                         500, [error |-> "Service not configured",
                               details |-> "Sponsor key missing"],
                         rl.map, w1)
     ELSE Ok([Call(x1, "sponsorTransaction") EXCEPT !.pc = "sponsor"], rl.map, w1)

\* fault variant: the rate limiter runs on every decoded transaction, before
\* the authorization kind is looked at
ValidateAfterRateLimit(x, text, map, t, w, o) ==
  LET txHex == StripPrefix(text)
      x1 == Call(x, "deserializeTransaction")
  IN IF ~Decodes(txHex)
     THEN LogThenRespond(x1, "warn", "Failed to deserialize transaction",
                         {"request_id", "error"}, o,
                         400, [error |-> "Invalid transaction",
                               details |-> "Could not deserialize transaction hex"],
                         map, w)
     ELSE LET x2 == [x1 EXCEPT !.tx = deserializeTransaction(txHex)]
              r == AdmitAndSponsor(x2, map, t, w, o)
          IN IF r.x.admit = "admitted" /\ x2.tx.authType # AuthSponsored
             THEN LogThenRespond(r.x, "warn", "Transaction not sponsored",
                                 {"request_id", "auth_type"}, o,
                                 400, [error |-> "Transaction must be sponsored",
                                       details |-> "Build transaction with sponsored: true"],
                                 r.map, r.w)
             ELSE r

\* fault variant: the authorization kind is not checked
ValidateAnyAuth(x, text, map, t, w, o) ==
  LET txHex == StripPrefix(text)
      x1 == Call(x, "deserializeTransaction")
  IN IF ~Decodes(txHex)
     THEN LogThenRespond(x1, "warn", "Failed to deserialize transaction",
                         {"request_id", "error"}, o,
                         400, [error |-> "Invalid transaction",
                               details |-> "Could not deserialize transaction hex"],
                         map, w)
     ELSE AdmitAndSponsor([x1 EXCEPT !.tx = deserializeTransaction(txHex)], map, t, w, o)

\* lines 184-224: prefix, deserializeTransaction, the authorization kind
Validate(x, text, map, t, w, o) ==
  LET txHex == StripPrefix(text)
      x1 == Call(x, "deserializeTransaction")
  IN IF ~Decodes(txHex)
     THEN LogThenRespond(x1, "warn", "Failed to deserialize transaction",
                         {"request_id", "error"}, o,
                         400, [error |-> "Invalid transaction",
                               details |-> "Could not deserialize transaction hex"],
                         map, w)
     ELSE LET x2 == [x1 EXCEPT !.tx = deserializeTransaction(txHex)]
          IN IF x2.tx.authType # AuthSponsored
             THEN LogThenRespond(x2, "warn", "Transaction not sponsored",
                                 {"request_id", "auth_type"}, o,
                                 400, [error |-> "Transaction must be sponsored",
                                       details |-> "Build transaction with sponsored: true"],
                                 map, w)
             ELSE AdmitAndSponsor(x2, map, t, w, o)

\* lines 175-268, after `await request.json()` has settled with `body`
TryBody(x, body, map, t, w, o) ==
  LET x1 == [x EXCEPT !.body = body]
      f == body.transaction
  IN CASE body.kind = "invalid" ->
            Throw(x1, Error("Unexpected token in JSON"), map, w)
       [] body.kind = "null" ->
            Throw(x1, Error("Cannot read properties of null"), map, w)
       [] OTHER ->
            IF ~Truthy(f)
            THEN Ok(JsonResponse(x1, 400, [error |-> "Missing transaction field"]), map, w)
            ELSE IF f.t # "string"
            THEN Throw(x1, Error("body.transaction.startsWith is not a function"), map, w)
            ELSE Validate(x1, f.v, map, t, w, o)

\* fault variant: a request whose sponsor call failed gives its rate-limit slot back
TrySponsorRefund(x, out, map, w, o) ==
  LET x1 == [x EXCEPT !.sponsor = out]
  IN IF ~out.ok
     THEN LogThenRespond(x1, "error", "Failed to sponsor transaction",
                         {"request_id", "error"}, o,
                         500, [error |-> "Failed to sponsor transaction",
                               details |-> ErrMessage(out.e)],
                         [map EXCEPT ![x.senderHex].count = @ - 1], w)
     ELSE Ok([Call(x1, "broadcastTransaction") EXCEPT !.pc = "broadcast"], map, w)

\* fault variant: a failed sponsorTransaction is called once more
TrySponsorRetry(x, out, map, w, o) ==
  LET x1 == [x EXCEPT !.sponsor = out]
  IN IF ~out.ok /\ Len(x.calls) < 4
     THEN Ok([Call(x1, "sponsorTransaction") EXCEPT !.pc = "sponsor"], map, w)
     ELSE IF ~out.ok
     THEN LogThenRespond(x1, "error", "Failed to sponsor transaction",
                         {"request_id", "error"}, o,
                         500, [error |-> "Failed to sponsor transaction",
                               details |-> ErrMessage(out.e)],
                         map, w)
     ELSE Ok([Call(x1, "broadcastTransaction") EXCEPT !.pc = "broadcast"], map, w)

\* lines 269-288, after `await sponsorTransaction(...)` has settled with `out`
TrySponsor(x, out, map, w, o) ==
  LET x1 == [x EXCEPT !.sponsor = out]
  IN IF ~out.ok
     THEN LogThenRespond(x1, "error", "Failed to sponsor transaction",
                         {"request_id", "error"}, o,
                         500, [error |-> "Failed to sponsor transaction",
                               details |-> ErrMessage(out.e)],
                         map, w)
     ELSE Ok([Call(x1, "broadcastTransaction") EXCEPT !.pc = "broadcast"], map, w)

\* fault variant: the details of a rejection are always the error, never the reason
TryBroadcastDetailsError(x, out, map, w, o) ==
  LET x1 == [x EXCEPT !.broadcast = out]
      broadcastResult == out.result
  IN IF ~out.ok
     THEN LogThenRespond(x1, "error", "Failed to broadcast transaction",
                         {"request_id", "error"}, o,
                         500, [error |-> "Failed to broadcast transaction",
                               details |-> ErrMessage(out.e)],
                         map, w)
     ELSE IF Present(broadcastResult.error)
     THEN LogThenRespond(x1, "error", "Broadcast rejected",
                         {"request_id", "error", "reason"}, o,
                         400, [error |-> "Broadcast rejected",
                               details |-> broadcastResult.error],
                         map, w)
     ELSE LogThenRespond(x1, "info", "Transaction sponsored and broadcast",
                         {"request_id", "txid", "sender"}, o,
                         200, [txid |-> broadcastResult.txid],
                         map, w)

\* fault variant: the success log call is awaited, the response waits for the log sink
TryBroadcastAwaitsLog(x, out, map, w, o) ==
  LET x1 == [x EXCEPT !.broadcast = out]
      broadcastResult == out.result
  IN IF ~out.ok
     THEN LogThenRespond(x1, "error", "Failed to broadcast transaction",
                         {"request_id", "error"}, o,
                         500, [error |-> "Failed to broadcast transaction",
                               details |-> ErrMessage(out.e)],
                         map, w)
     ELSE IF Present(broadcastResult.error)
     THEN LogThenRespond(x1, "error", "Broadcast rejected",
                         {"request_id", "error", "reason"}, o,
                         400, [error |-> "Broadcast rejected",
                               details |-> IF Present(broadcastResult.reason)
                                           THEN broadcastResult.reason
                                           ELSE broadcastResult.error],
                         map, w)
     ELSE Ok([Log(x1, "info", "Transaction sponsored and broadcast",
                  {"request_id", "txid", "sender"}, o) EXCEPT !.pc = "log"],
             map, w)

\* lines 289-338, after `await broadcastTransaction(...)` has settled with `out`
TryBroadcast(x, out, map, w, o) ==
  LET x1 == [x EXCEPT !.broadcast = out]
      broadcastResult == out.result
  IN IF ~out.ok
     THEN LogThenRespond(x1, "error", "Failed to broadcast transaction",
                         {"request_id", "error"}, o,
                         500, [error |-> "Failed to broadcast transaction",
                               details |-> ErrMessage(out.e)],
                         map, w)
     ELSE IF Present(broadcastResult.error)
     THEN LogThenRespond(x1, "error", "Broadcast rejected",
                         {"request_id", "error", "reason"}, o,
                         400, [error |-> "Broadcast rejected",
                               details |-> IF Present(broadcastResult.reason)
                                           THEN broadcastResult.reason
                                           ELSE broadcastResult.error],
                         map, w)
     ELSE LogThenRespond(x1, "info", "Transaction sponsored and broadcast",
                         {"request_id", "txid", "sender"}, o,
                         200, [txid |-> broadcastResult.txid],
                         map, w)

\* lines 339-353: the outermost catch; its own log call is outside every try
Catch(r, o) ==
  IF r.k = "ok" THEN r
  ELSE LET xl == Log(r.x, "error", "Unexpected error", {"request_id", "error"}, o)
       IN IF o = "throws" THEN Ok(Escape(xl, LogThrown), r.map, r.w)
          ELSE Ok(JsonResponse(xl, 500, [error |-> "Internal server error",
                                         details |-> ErrMessage(r.e)]),
                  r.map, r.w)

\* fault variant: /health answers 500 when the sponsor key is not configured
EnterHealthNeedsKey(method, path, o) ==
  LET x == [Idle EXCEPT !.method = method, !.path = path]
  IN IF method = "OPTIONS"
     THEN Respond(x, 200, "", corsHeaders, <<>>)
     ELSE IF path = "/health"
     THEN Respond(x, IF KeyMissing(env.SPONSOR_PRIVATE_KEY) THEN 500 ELSE 200,
                  "application/json", corsHeaders,
                  JSONstringify([status |-> "ok", network |-> env.STACKS_NETWORK,
                                 version |-> "0.1.0"]))
     ELSE IF path = "/relay" /\ method = "POST"
     THEN LET xl == Log(x, "info", "Relay request received", {"request_id"}, o)
          IN IF o = "throws" THEN Escape(xl, LogThrown)
             ELSE [xl EXCEPT !.pc = "json"]
     ELSE Respond(x, 200, "text/plain", corsHeaders, [text |-> "x402 Stacks Sponsor Relay"])

\* fault variant: the default response is sent without the CORS headers
EnterBannerNoCors(method, path, o) ==
  LET x == [Idle EXCEPT !.method = method, !.path = path]
  IN IF method = "OPTIONS"
     THEN Respond(x, 200, "", corsHeaders, <<>>)
     ELSE IF path = "/health"
     THEN Respond(x, 200, "application/json", corsHeaders,
                  JSONstringify([status |-> "ok", network |-> env.STACKS_NETWORK,
                                 version |-> "0.1.0"]))
     ELSE IF path = "/relay" /\ method = "POST"
     THEN LET xl == Log(x, "info", "Relay request received", {"request_id"}, o)
          IN IF o = "throws" THEN Escape(xl, LogThrown)
             ELSE [xl EXCEPT !.pc = "json"]
     ELSE Respond(x, 200, "text/plain", <<>>, [text |-> "x402 Stacks Sponsor Relay"])

\* lines 134-175: up to `await request.json()`
Enter(method, path, o) ==
  LET x == [Idle EXCEPT !.method = method, !.path = path]
  IN IF method = "OPTIONS"
     THEN Respond(x, 200, "", corsHeaders, <<>>)
     ELSE IF path = "/health"
     THEN Respond(x, 200, "application/json", corsHeaders,
                  JSONstringify([status |-> "ok", network |-> env.STACKS_NETWORK,
                                 version |-> "0.1.0"]))
     ELSE IF path = "/relay" /\ method = "POST"
     THEN LET xl == Log(x, "info", "Relay request received", {"request_id"}, o)
          IN IF o = "throws" THEN Escape(xl, LogThrown)
             ELSE [xl EXCEPT !.pc = "json"]
     ELSE Respond(x, 200, "text/plain", corsHeaders, [text |-> "x402 Stacks Sponsor Relay"])

(***************************************************************************)
(* Actions.                                                                *)
(***************************************************************************)
\* the segment leaves the exchange of slot s as x: it stays in flight, or fetch
\* has returned (or thrown) and the slot is free.  `last` records the exchange
\* when the segment ended it or took it through the rate limiter.
Settle(s, x) ==
  /\ last = Idle
  /\ last' = IF x.pc = "done" \/ x.ord > 0 THEN x ELSE Idle
  /\ inflight' = [inflight EXCEPT ![s] = IF x.pc = "done" THEN Idle
                                         ELSE [x EXCEPT !.ord = 0]]

Arrive(s) ==
  /\ inflight[s].pc = "idle"
  /\ \A q \in Slots : q < s => inflight[q].pc # "idle"
  /\ Cardinality({q \in Slots : inflight[q].pc # "idle"}) < workload.concurrency
  /\ \E method \in Methods, path \in Paths, o \in LogOutcomes :
       Settle(s, Enter(method, path, o))
  /\ UNCHANGED <<rateLimitMap, now, env, window, workload, admissions>>

BodyParsed(s) ==
  /\ inflight[s].pc = "json"
  /\ \E body \in {b \in Bodies : Submits(workload, b)},
        o1 \in LogOutcomes, o2 \in LogOutcomes :
       LET r == Catch(TryBody(inflight[s], body, rateLimitMap, now, window, o1), o2)
       IN /\ Settle(s, r.x)
          /\ rateLimitMap' = r.map
          /\ window' = r.w
  /\ UNCHANGED <<now, env, workload, admissions>>

SponsorSettled(s) ==
  /\ inflight[s].pc = "sponsor"
  /\ \E out \in SponsorOutcomes, o1 \in LogOutcomes, o2 \in LogOutcomes :
       LET r == Catch(TrySponsor(inflight[s], out, rateLimitMap, window, o1), o2)
       IN /\ Settle(s, r.x)
          /\ rateLimitMap' = r.map
          /\ window' = r.w
  /\ UNCHANGED <<now, env, workload, admissions>>

BroadcastSettled(s) ==
  /\ inflight[s].pc = "broadcast"
  /\ \E out \in BroadcastOutcomes, o1 \in LogOutcomes, o2 \in LogOutcomes :
       LET r == Catch(TryBroadcast(inflight[s], out, rateLimitMap, window, o1), o2)
       IN /\ Settle(s, r.x)
          /\ rateLimitMap' = r.map
          /\ window' = r.w
  /\ UNCHANGED <<now, env, workload, admissions>>

\* the record of the step just taken is dropped before the next step is taken:
\* `last` is history, no step of the handler reads it
Forget ==
  /\ last # Idle
  /\ last' = Idle
  /\ UNCHANGED <<rateLimitMap, now, env, inflight, window, workload, admissions>>

\* time passes
Tick ==
  /\ last = Idle
  /\ \E t \in Times : t > now /\ now' = t
  /\ UNCHANGED <<rateLimitMap, env, inflight, last, window, workload, admissions>>

\* the admissions of a key, by the instant of the call
NoAdmissions == [key |-> <<>>, at |-> [t \in Times |-> 0]]

InitWith(logs, loads) ==
  /\ rateLimitMap = <<>>
  /\ now = 0
  /\ env \in {c \in Envs : c.LOGS \in logs}
  /\ inflight = [s \in Slots |-> Idle]
  /\ last = Idle
  /\ window = <<>>
  /\ workload \in loads
  /\ admissions = NoAdmissions

\* the log binding is the LogsRPC the configuration declares
Init == InitWith({"LogsRPC"}, Workloads)

\* the log binding is whatever env.LOGS holds
InitAnyLogs == InitWith({"LogsRPC", "other"}, {wl \in Workloads : wl.signers = {"a"}})

Next ==
  \/ \E s \in Slots : Arrive(s)
  \/ \E s \in Slots : BodyParsed(s)
  \/ \E s \in Slots : SponsorSettled(s)
  \/ \E s \in Slots : BroadcastSettled(s)
  \/ Forget
  \/ Tick

Spec == Init /\ [][Next]_vars

SpecAnyLogs == InitAnyLogs /\ [][Next]_vars

(***************************************************************************)
(* Progress.  The runtime settles what the handler awaits: request.json(), *)
(* sponsorTransaction and broadcastTransaction each return or throw in the *)
(* end, and the continuation then runs.  A continuation waits only while   *)
(* the record of another step is being dropped, so the fairness is strong. *)
(***************************************************************************)
Settles ==
  \A s \in Slots :
    /\ SF_vars(BodyParsed(s))
    /\ SF_vars(SponsorSettled(s))
    /\ SF_vars(BroadcastSettled(s))

InitLive == InitWith({"LogsRPC"}, {wl \in Workloads : wl.concurrency = MaxInFlight})

SpecLive == InitLive /\ [][Next]_vars /\ WF_vars(Forget) /\ Settles

(***************************************************************************)
(* The rate limiter on its own: checkRateLimit is called for any key at    *)
(* any instant, as often as one likes, and the instants at which the calls *)
(* for one key (chosen at the start) were admitted are recorded.  The      *)
(* per-window history `window` belongs to the handler's steps and is not   *)
(* kept here.                                                              *)
(***************************************************************************)
Check(address) ==
  LET rl == checkRateLimit(rateLimitMap, now, address)
  IN /\ rateLimitMap' = rl.map
     /\ admissions' = IF rl.admit /\ address = admissions.key
                      THEN [admissions EXCEPT !.at[now] = @ + 1]
                      ELSE admissions
     /\ UNCHANGED <<now, env, inflight, last, window, workload>>

InitLimiter ==
  /\ rateLimitMap = <<>>
  /\ now = 0
  /\ env \in {c \in Envs : c.LOGS = "LogsRPC" /\ ~KeyMissing(c.SPONSOR_PRIVATE_KEY)}
  /\ inflight = [s \in Slots |-> Idle]
  /\ last = Idle
  /\ window = <<>>
  /\ workload \in {wl \in Workloads : wl.signers = Signers}
  /\ \E k \in SenderKeys : admissions = [NoAdmissions EXCEPT !.key = k]

NextLimiter ==
  \/ \E address \in SenderKeys : Check(address)
  \/ Tick

SpecLimiter == InitLimiter /\ [][NextLimiter]_vars

(***************************************************************************)
(* Vocabulary of the properties.                                           *)
(***************************************************************************)
Min(a, b) == IF a < b THEN a ELSE b

Pipeline ==
  <<"deserializeTransaction", "checkRateLimit", "sponsorTransaction", "broadcastTransaction">>

HasCall(x, f) == \E i \in 1..Len(x.calls) : x.calls[i] = f

IsRelay(x) == x.method = "POST" /\ x.path = "/relay"

\* fetch has returned or thrown for a POST /relay
RelayEnded(x) == x.pc = "done" /\ IsRelay(x)

\* the exchanges in the state: those in flight and the one the last step recorded
Exchanges == {inflight[s] : s \in Slots} \cup {last}

\* the body carries a non-empty string as its transaction
HasText(x) ==
  x.body.kind = "object" /\ x.body.transaction.t = "string" /\ Truthy(x.body.transaction)

Malformed(x) == HasText(x) /\ ~Decodes(StripPrefix(x.body.transaction.v))

NotSponsored(x) ==
  /\ HasText(x)
  /\ Decodes(StripPrefix(x.body.transaction.v))
  /\ deserializeTransaction(StripPrefix(x.body.transaction.v)).authType # AuthSponsored

\* key has used up the capacity of its current window
Exhausted(key) ==
  /\ key \in DOMAIN rateLimitMap
  /\ rateLimitMap[key].count >= RATE_LIMIT
  /\ now <= rateLimitMap[key].resetAt

ErrorIs(x, m) == "error" \in DOMAIN x.payload /\ x.payload.error = m

(***************************************************************************)
(* C1.  In every window of a sender (opened by the request that creates or *)
(* resets its entry, open until the clock has passed resetAt) the rate     *)
(* limiter admits exactly the first RATE_LIMIT = 10 requests and rejects   *)
(* the 11th and every later one; a request after resetAt opens a new       *)
(* window with count 1.  The entry of a key counts the admitted requests   *)
(* of its window, a request is answered 429 exactly when it is beyond the  *)
(* 10th of its window, and the first request of a window leaves            *)
(* {count: 1, resetAt: now + 60 s}.                                        *)
(***************************************************************************)
C1_RateLimitWindow ==
  /\ DOMAIN rateLimitMap = DOMAIN window
  /\ \A k \in DOMAIN rateLimitMap :
       /\ rateLimitMap[k].resetAt = window[k].resetAt
       /\ rateLimitMap[k].count = Min(window[k].calls, RATE_LIMIT)
  /\ last.ord > 0 =>
       /\ (last.admit = "admitted") <=> (last.ord <= RATE_LIMIT)
       /\ (last.status = 429) <=> (last.ord > RATE_LIMIT)
       /\ last.ord = 1 =>
            rateLimitMap[last.senderHex] = [count |-> 1, resetAt |-> now + RATE_WINDOW_MS]

\* the 11th request of a window has been answered 429
C1_Witness ==
  /\ RelayEnded(last)
  /\ last.ord = RATE_LIMIT + 1
  /\ last.status = 429
  /\ ErrorIs(last, "Rate limit exceeded")

(***************************************************************************)
(* C2.  Validation precedes rate limiting: a POST /relay whose transaction *)
(* is malformed or not sponsored is answered 400 (Invalid transaction /    *)
(* Transaction must be sponsored), never 429, and leaves the rate-limit    *)
(* table as it was, also when the sender has used up its window.           *)
(***************************************************************************)
C2_ValidationBeforeRateLimit ==
  [][(RelayEnded(last') /\ (Malformed(last') \/ NotSponsored(last'))) =>
       /\ last'.status = 400
       /\ Malformed(last') => ErrorIs(last', "Invalid transaction")
       /\ NotSponsored(last') => ErrorIs(last', "Transaction must be sponsored")
       /\ ~HasCall(last', "checkRateLimit")
       /\ rateLimitMap' = rateLimitMap]_vars

\* a transaction that is not sponsored, of a sender whose window is used up, got its 400
C2_Witness ==
  /\ RelayEnded(last)
  /\ NotSponsored(last)
  /\ Exhausted(SenderHex(last.tx.signer))
  /\ last.status = 400

(***************************************************************************)
(* C3.  A decoded transaction whose authorization kind is not sponsored is *)
(* always answered 400 "Transaction must be sponsored"; its request calls  *)
(* neither checkRateLimit nor sponsorTransaction nor broadcastTransaction, *)
(* and no rate-limit entry is created or incremented.                      *)
(***************************************************************************)
C3_NotSponsoredRejected ==
  [][/\ \A s \in Slots : inflight'[s].tx.authType # AuthStandard
     /\ last'.tx.authType = AuthStandard =>
          /\ last'.pc = "done"
          /\ last'.result = "response"
          /\ last'.status = 400
          /\ ErrorIs(last', "Transaction must be sponsored")
          /\ last'.calls = <<"deserializeTransaction">>
          /\ rateLimitMap' = rateLimitMap]_vars

\* a standard transaction was decoded and refused
C3_Witness ==
  /\ RelayEnded(last)
  /\ last.tx.authType = AuthStandard
  /\ last.status = 400
  /\ last.calls = <<"deserializeTransaction">>

(***************************************************************************)
(* C4.  Within one request the stages run in the order validate,           *)
(* rate-limit, sponsor, broadcast, each at most once, and a stage starts   *)
(* only if every earlier one succeeded: the rate limiter after a decoded   *)
(* sponsored transaction, sponsorTransaction after the rate limiter        *)
(* admitted, broadcastTransaction after sponsorTransaction returned.       *)
(***************************************************************************)
C4_StageOrder ==
  \A x \in Exchanges :
    /\ x.calls = SubSeq(Pipeline, 1, Len(x.calls))
    /\ HasCall(x, "checkRateLimit") => x.tx.authType = AuthSponsored
    /\ HasCall(x, "sponsorTransaction") => x.admit = "admitted"
    /\ HasCall(x, "broadcastTransaction") => x.sponsor.ok

\* a request went through all four stages and was answered
C4_Witness ==
  /\ RelayEnded(last)
  /\ last.calls = Pipeline
  /\ last.status = 200

(***************************************************************************)
(* C5 as stated.  With SPONSOR_PRIVATE_KEY unset every POST /relay is      *)
(* answered 500 "Service not configured" and neither sponsorTransaction    *)
(* nor broadcastTransaction is called, whatever the body and the           *)
(* rate-limit table.                                                       *)
(***************************************************************************)
C5_AnyRelayNotConfigured ==
  (KeyMissing(env.SPONSOR_PRIVATE_KEY) /\ RelayEnded(last)) =>
    /\ last.status = 500
    /\ ErrorIs(last, "Service not configured")
    /\ ~HasCall(last, "sponsorTransaction")
    /\ ~HasCall(last, "broadcastTransaction")

(***************************************************************************)
(* C5 amended.  With SPONSOR_PRIVATE_KEY unset no request ever calls       *)
(* sponsorTransaction or broadcastTransaction; a POST /relay that passes   *)
(* validation and is admitted by the rate limiter is answered 500          *)
(* "Service not configured"; a POST /relay stopped by an earlier check     *)
(* gets that check's answer (400, 429, or 500 "Internal server error")     *)
(* and not "Service not configured".  With the key set that answer is      *)
(* never given.                                                            *)
(***************************************************************************)
C5_NotConfiguredAfterAdmission ==
  /\ KeyMissing(env.SPONSOR_PRIVATE_KEY) =>
       /\ \A x \in Exchanges :
            ~HasCall(x, "sponsorTransaction") /\ ~HasCall(x, "broadcastTransaction")
       /\ RelayEnded(last) =>
            IF last.admit = "admitted"
            THEN last.status = 500 /\ ErrorIs(last, "Service not configured")
            ELSE /\ last.status \in {400, 429, 500}
                 /\ ~ErrorIs(last, "Service not configured")
  /\ ErrorIs(last, "Service not configured") => KeyMissing(env.SPONSOR_PRIVATE_KEY)

\* an admitted request was answered "Service not configured"
C5_Witness ==
  /\ KeyMissing(env.SPONSOR_PRIVATE_KEY)
  /\ RelayEnded(last)
  /\ last.admit = "admitted"
  /\ last.status = 500
  /\ ErrorIs(last, "Service not configured")

(***************************************************************************)
(* C6.  After a broadcast call that returned: a result with an error field *)
(* is answered 400 "Broadcast rejected" with details equal to its reason   *)
(* when it has one and to its error otherwise; a result that is {txid} is  *)
(* answered 200 with a body of that txid alone.                            *)
(***************************************************************************)
C6_BroadcastResult ==
  (RelayEnded(last) /\ last.broadcast.ok) =>
    LET b == last.broadcast.result
    IN /\ Present(b.error) =>
            /\ last.status = 400
            /\ ErrorIs(last, "Broadcast rejected")
            /\ last.payload.details = IF Present(b.reason) THEN b.reason ELSE b.error
       /\ (Present(b.txid) /\ ~Present(b.error) /\ ~Present(b.reason)) =>
            /\ last.status = 200
            /\ last.payload = [txid |-> b.txid]

\* a rejection that names its reason was answered with that reason
C6_Witness ==
  /\ RelayEnded(last)
  /\ last.broadcast.ok
  /\ Present(last.broadcast.result.error)
  /\ Present(last.broadcast.result.reason)
  /\ last.status = 400
  /\ last.payload.details = last.broadcast.result.reason

(***************************************************************************)
(* C7 as stated.  A request ends in the 200 response exactly when the      *)
(* broadcast result has a txid and no error: a result with both is         *)
(* answered 400 "Broadcast rejected", a result with neither is answered    *)
(* 500, never 200.                                                         *)
(***************************************************************************)
C7_SuccessIffTxidAndNoError ==
  (RelayEnded(last) /\ last.broadcast.ok) =>
    LET b == last.broadcast.result
    IN /\ (last.status = 200) <=> (Present(b.txid) /\ ~Present(b.error))
       /\ (Present(b.txid) /\ Present(b.error)) =>
            last.status = 400 /\ ErrorIs(last, "Broadcast rejected")
       /\ (~Present(b.txid) /\ ~Present(b.error)) => last.status = 500

(***************************************************************************)
(* C8 as stated.  Every response body of POST /relay has one of two        *)
(* shapes: txid alone, or error with optional details and no txid; none    *)
(* has both, none has neither.                                             *)
(***************************************************************************)
C8_ExactlyOneShape ==
  (RelayEnded(last) /\ last.result = "response") =>
    \/ DOMAIN last.payload = {"txid"}
    \/ DOMAIN last.payload \in {{"error"}, {"error", "details"}}

(***************************************************************************)
(* C9 as stated.  A POST /relay whose JSON body has no transaction field,  *)
(* or one that is not a string, is answered 400 "Missing transaction       *)
(* field" and nothing else happens: no decoding, no rate-limit call, no    *)
(* sponsor call, no broadcast call.                                        *)
(***************************************************************************)
C9_MissingOrNotAString ==
  (RelayEnded(last) /\ last.body.kind = "object" /\ last.body.transaction.t # "string") =>
    /\ last.status = 400
    /\ ErrorIs(last, "Missing transaction field")
    /\ last.calls = <<>>

(***************************************************************************)
(* C10 as stated.  Whatever is thrown while a POST /relay is handled (body *)
(* parsing, decoding, sponsor call, broadcast call, a log call), fetch     *)
(* returns a response; when it is not the 200 success it is a JSON object  *)
(* with an error field and a 4xx/5xx status.  No exception leaves fetch.   *)
(***************************************************************************)
C10_NoExceptionEscapes ==
  RelayEnded(last) =>
    /\ last.result = "response"
    /\ last.ctype = "application/json"
    /\ last.status # 200 => (last.status \in 400..599 /\ "error" \in DOMAIN last.payload)

(***************************************************************************)
(* The exchange a step worked on, as it was before the step, and what the  *)
(* same segment gives for the same inputs when no log call fails.          *)
(***************************************************************************)
Before ==
  IF \E s \in Slots : inflight'[s] # inflight[s]
  THEN (CHOOSE s \in Slots : inflight'[s] # inflight[s])
  ELSE 0

BeforeExchange == IF Before = 0 THEN Idle ELSE inflight[Before]

WithoutLogFailure(before, after) ==
  CASE before.pc = "idle" -> Enter(after.method, after.path, "promise")
    [] before.pc = "json" ->
         Catch(TryBody(before, after.body, rateLimitMap, now, window, "promise"),
               "promise").x
    [] before.pc = "sponsor" ->
         Catch(TrySponsor(before, after.sponsor, rateLimitMap, window, "promise"),
               "promise").x
    [] OTHER ->
         Catch(TryBroadcast(before, after.broadcast, rateLimitMap, window, "promise"),
               "promise").x

SameResponse(x, y) ==
  /\ x.pc = y.pc
  /\ x.result = y.result
  /\ x.status = y.status
  /\ x.payload = y.payload

(***************************************************************************)
(* C11 as stated.  A log call that fails never fails the request: however  *)
(* the log calls of a segment behave (they return a promise, which may     *)
(* reject later, or they throw when invoked), a POST /relay ends exactly   *)
(* where, and with the status and body, it ends when every log call        *)
(* succeeds; the handler never waits for a log call.                       *)
(***************************************************************************)
C11_LogFailureNeverFailsRequest ==
  [][RelayEnded(last') =>
       SameResponse(last', WithoutLogFailure(BeforeExchange, last'))]_vars

(***************************************************************************)
(* More vocabulary: how often a stage function was called, the log calls   *)
(* of a level, and how the two external calls of an exchange ended.        *)
(***************************************************************************)
CallCount(x, f) == Cardinality({i \in 1..Len(x.calls) : x.calls[i] = f})

LogsOf(x, level) == {i \in 1..Len(x.logs) : x.logs[i].level = level}

SponsorFailed(x) == x.sponsor # NoSponsor /\ ~x.sponsor.ok

BroadcastThrew(x) == x.broadcast # NoBroadcast /\ ~x.broadcast.ok

BroadcastRejected(x) == x.broadcast.ok /\ Present(x.broadcast.result.error)

\* x ended in one error response, reported by one error log call with that message
ReportedOnce(x, status, message) ==
  /\ x.result = "response"
  /\ x.status = status
  /\ ErrorIs(x, message)
  /\ Cardinality(LogsOf(x, "error")) = 1
  /\ \A i \in LogsOf(x, "error") : x.logs[i].message = message

(***************************************************************************)
(* C12.  No retries: a request calls sponsorTransaction at most once and   *)
(* broadcastTransaction at most once, and a failure of either (the sponsor *)
(* call throws, the broadcast call throws, the broadcast is rejected) ends *)
(* the request with one error response and one error log call for that     *)
(* failure; after a failed sponsor call there is no broadcast call.        *)
(***************************************************************************)
C12_NoRetries ==
  /\ \A x \in Exchanges :
       /\ CallCount(x, "sponsorTransaction") <= 1
       /\ CallCount(x, "broadcastTransaction") <= 1
       /\ (SponsorFailed(x) \/ BroadcastThrew(x) \/ BroadcastRejected(x)) => x.pc = "done"
  /\ RelayEnded(last) =>
       /\ SponsorFailed(last) =>
            /\ ReportedOnce(last, 500, "Failed to sponsor transaction")
            /\ ~HasCall(last, "broadcastTransaction")
       /\ BroadcastThrew(last) => ReportedOnce(last, 500, "Failed to broadcast transaction")
       /\ BroadcastRejected(last) => ReportedOnce(last, 400, "Broadcast rejected")

\* a sponsor call failed and the request ended with its one error response
C12_Witness ==
  /\ RelayEnded(last)
  /\ SponsorFailed(last)
  /\ CallCount(last, "sponsorTransaction") = 1
  /\ ReportedOnce(last, 500, "Failed to sponsor transaction")

(***************************************************************************)
(* The stage at which a POST /relay that has ended failed first, read off  *)
(* what it was given: its body, the limiter's answer, the configuration,   *)
(* the outcomes of the two external calls.                                 *)
(***************************************************************************)
FirstFailure(x) ==
  CASE x.body.kind # "object" -> "exception"
    [] ~HasText(x) -> "field"
    [] Malformed(x) -> "decode"
    [] NotSponsored(x) -> "authorization"
    [] x.admit = "rejected" -> "rate limit"
    [] KeyMissing(env.SPONSOR_PRIVATE_KEY) -> "credential"
    [] SponsorFailed(x) -> "sponsor"
    [] BroadcastThrew(x) -> "transport"
    [] BroadcastRejected(x) -> "rejection"
    [] OTHER -> "none"

StatusOf(failure) ==
  CASE failure \in {"field", "decode", "authorization", "rejection"} -> 400
    [] failure = "rate limit" -> 429
    [] OTHER -> 500

(***************************************************************************)
(* C13 as stated.  The status of a POST /relay that fails is that of its   *)
(* first failing stage: transaction field missing or invalid 400, decode   *)
(* failure 400, not sponsored 400, rate limit 429, no sponsor key 500,     *)
(* sponsor call failed 500, broadcast call threw 500, broadcast rejected   *)
(* 400, any other exception 500; a broadcast call that threw is never      *)
(* answered "Broadcast rejected", a rejection never "Failed to broadcast   *)
(* transaction".                                                           *)
(***************************************************************************)
C13_StatusByFirstFailingStage ==
  (RelayEnded(last) /\ FirstFailure(last) # "none") =>
    /\ last.result = "response"
    /\ last.status = StatusOf(FirstFailure(last))
    /\ ErrorIs(last, "Failed to broadcast transaction") <=> (FirstFailure(last) = "transport")
    /\ ErrorIs(last, "Broadcast rejected") <=> (FirstFailure(last) = "rejection")

(***************************************************************************)
(* C14.  GET /health is answered 200 with status "ok" and the configured   *)
(* network in whatever state it arrives (rate-limit table empty or full,   *)
(* sponsor key set or not), and handling it neither reads nor changes the  *)
(* rate-limit table and calls neither sponsorTransaction nor               *)
(* broadcastTransaction nor the log sink.                                  *)
(***************************************************************************)
C14_HealthAlwaysOk ==
  [][(last'.pc = "done" /\ last'.method = "GET" /\ last'.path = "/health") =>
       /\ last'.result = "response"
       /\ last'.status = 200
       /\ DOMAIN last'.payload = {"status", "network", "version"}
       /\ last'.payload.status = "ok"
       /\ last'.payload.network = env.STACKS_NETWORK
       /\ last'.calls = <<>>
       /\ last'.logs = <<>>
       /\ rateLimitMap' = rateLimitMap]_vars

\* /health answered 200 while a sender was at capacity and no sponsor key was set
C14_Witness ==
  /\ last.pc = "done" /\ last.method = "GET" /\ last.path = "/health"
  /\ last.status = 200
  /\ last.payload.status = "ok"
  /\ KeyMissing(env.SPONSOR_PRIVATE_KEY)
  /\ \E k \in SenderKeys : Exhausted(k)

(***************************************************************************)
(* C15.  The check-and-increment of the rate limiter is atomic per key     *)
(* when requests of one sender interleave at their awaits (request.json(), *)
(* sponsorTransaction, broadcastTransaction): no increment is lost, the    *)
(* stored count of a key is the number of requests admitted in its window, *)
(* and that number never exceeds RATE_LIMIT = 10.                          *)
(***************************************************************************)
C15_AtomicCheckAndIncrement ==
  \A k \in DOMAIN rateLimitMap :
    /\ k \in DOMAIN window
    /\ window[k].admitted <= RATE_LIMIT
    /\ rateLimitMap[k].count = window[k].admitted

\* two admitted requests of one sender are in flight at different awaits, and
\* the sender's window is full
C15_Witness ==
  /\ workload.concurrency > 1
  /\ \E s \in Slots, q \in Slots :
       /\ inflight[s].pc = "sponsor" /\ inflight[q].pc = "broadcast"
       /\ inflight[s].admit = "admitted" /\ inflight[q].admit = "admitted"
       /\ inflight[s].senderHex = inflight[q].senderHex
       /\ inflight[s].senderHex \in DOMAIN rateLimitMap
       /\ rateLimitMap[inflight[s].senderHex].count = RATE_LIMIT

(***************************************************************************)
(* C16.  A well-formed sponsored transaction submitted as hex h and as     *)
(* "0x" followed by h is validated identically: the decoder is given the   *)
(* same string, and the request that carries one form ends up exactly      *)
(* where, in the same state, the request carrying the other form would:    *)
(* same calls, same rate-limit key, same answer of the limiter, same       *)
(* response, same rate-limit table.                                        *)
(***************************************************************************)
WellFormedSponsored ==
  {h \in HexTexts : Decodes(h) /\ deserializeTransaction(h).authType = AuthSponsored}

Prefixed(h) == <<"0", "x">> \o h

TextBody(v) == [kind |-> "object", transaction |-> JsString(v)]

C16_PrefixRoundTrip ==
  [][\A h \in WellFormedSponsored :
       (BeforeExchange.pc = "json" /\ last'.body \in {TextBody(h), TextBody(Prefixed(h))}) =>
         LET plain == Catch(TryBody(BeforeExchange, TextBody(h),
                                    rateLimitMap, now, window, "promise"), "promise")
             prefixed == Catch(TryBody(BeforeExchange, TextBody(Prefixed(h)),
                                       rateLimitMap, now, window, "promise"), "promise")
         IN /\ StripPrefix(Prefixed(h)) = StripPrefix(h)
            /\ [plain.x EXCEPT !.body = NoBody] = [prefixed.x EXCEPT !.body = NoBody]
            /\ plain.map = prefixed.map
            /\ [last' EXCEPT !.body = NoBody] = [plain.x EXCEPT !.body = NoBody]
            /\ rateLimitMap' = plain.map
            /\ last'.tx = deserializeTransaction(h)
            /\ last'.senderHex = SenderHex(<<h[2]>>)]_vars

\* the prefixed form was decoded, found sponsored and taken to the rate limiter
C16_Witness ==
  /\ IsRelay(last)
  /\ last.body = TextBody(Prefixed(<<"5", "a">>))
  /\ last.tx = deserializeTransaction(<<"5", "a">>)
  /\ last.senderHex = SenderHex(<<"a">>)
  /\ last.admit = "admitted"

(***************************************************************************)
(* C17.  Every response the handler returns (health, every answer of       *)
(* /relay, the default text) carries the three CORS headers; an OPTIONS    *)
(* request on any path is answered with those headers and an empty body    *)
(* before anything else is done: no log call, no stage call, no change of  *)
(* the rate-limit table.                                                   *)
(***************************************************************************)
C17_CorsEverywhere ==
  [][(last'.pc = "done" /\ last'.result = "response") =>
       /\ DOMAIN last'.cors = {"Access-Control-Allow-Origin", "Access-Control-Allow-Methods",
                               "Access-Control-Allow-Headers"}
       /\ last'.cors["Access-Control-Allow-Origin"] = "*"
       /\ last'.cors["Access-Control-Allow-Methods"] = "GET, POST, OPTIONS"
       /\ last'.cors["Access-Control-Allow-Headers"] = "Content-Type"
       /\ last'.method = "OPTIONS" =>
            /\ last'.payload = <<>>
            /\ last'.status = 200
            /\ last'.logs = <<>>
            /\ last'.calls = <<>>
            /\ last'.body = NoBody
            /\ rateLimitMap' = rateLimitMap]_vars

\* an OPTIONS request on /relay was answered with the headers and nothing else
C17_Witness ==
  /\ last.pc = "done"
  /\ last.method = "OPTIONS" /\ last.path = "/relay"
  /\ last.cors = corsHeaders
  /\ last.payload = <<>>
  /\ last.logs = <<>>

(***************************************************************************)
(* C18 as stated.  A request of a sender that reaches the rate limiter     *)
(* when the clock equals the resetAt of the sender's entry starts a new    *)
(* window: the entry becomes {count: 1, resetAt: now + 60 s} and the       *)
(* request is admitted, also when the old count was at capacity.           *)
(***************************************************************************)
C18_ResetAtBoundary ==
  [][\A k \in DOMAIN rateLimitMap :
       (/\ BeforeExchange.pc = "json"
        /\ HasCall(last', "checkRateLimit")
        /\ last'.senderHex = k
        /\ now = rateLimitMap[k].resetAt) =>
         /\ last'.admit = "admitted"
         /\ rateLimitMap'[k] = [count |-> 1, resetAt |-> now + RATE_WINDOW_MS]]_vars

(***************************************************************************)
(* C19.  A rejection by the rate limiter changes nothing: when             *)
(* checkRateLimit answers false, the count and resetAt of the key and the  *)
(* entry of every other key are as before, so rejected requests neither    *)
(* extend the window nor take the count above RATE_LIMIT.                  *)
(***************************************************************************)
C19_RejectionLeavesTable ==
  [][/\ (BeforeExchange.pc = "json" /\ last'.admit = "rejected") =>
          /\ rateLimitMap' = rateLimitMap
          /\ rateLimitMap[last'.senderHex].count = RATE_LIMIT
     /\ \A k \in DOMAIN rateLimitMap' : rateLimitMap'[k].count <= RATE_LIMIT]_vars

\* a request was rejected later in the window than the window was opened, with
\* another sender's entry in the table
C19_Witness ==
  /\ RelayEnded(last)
  /\ last.admit = "rejected"
  /\ last.ord = RATE_LIMIT + MaxOver
  /\ now > 0
  /\ rateLimitMap[last.senderHex] = [count |-> RATE_LIMIT, resetAt |-> RATE_WINDOW_MS]
  /\ \E k \in DOMAIN rateLimitMap : k # last.senderHex

(***************************************************************************)
(* Counting admissions in intervals of 60 s.  `at` gives, per instant, the *)
(* number of calls admitted at it; an interval is [s, s + RATE_WINDOW_MS], *)
(* both ends included, and the fullest one starts at an observed instant.  *)
(***************************************************************************)
RECURSIVE SumAt(_, _)
SumAt(at, S) ==
  IF S = {} THEN 0
  ELSE LET t == CHOOSE u \in S : TRUE IN at[t] + SumAt(at, S \ {t})

AdmittedIn(at, s) == SumAt(at, {t \in DOMAIN at : s <= t /\ t <= s + RATE_WINDOW_MS})

MostIn60s(at) ==
  LET counts == {AdmittedIn(at, s) : s \in DOMAIN at}
  IN CHOOSE n \in counts : \A c \in counts : c <= n

(***************************************************************************)
(* A plan sends plan[t] requests of one key at each instant t; Replay      *)
(* gives the number checkRateLimit admits at each instant, from the first  *)
(* instant on, starting with the given map.                                *)
(***************************************************************************)
Plans == [Times -> 0..RATE_LIMIT]

RECURSIVE Burst(_, _, _, _)
Burst(map, t, key, n) ==
  IF n = 0 THEN [map |-> map, admitted |-> 0]
  ELSE LET rl == checkRateLimit(map, t, key)
           rest == Burst(rl.map, t, key, n - 1)
       IN [map |-> rest.map, admitted |-> rest.admitted + (IF rl.admit THEN 1 ELSE 0)]

RECURSIVE Replay(_, _, _, _)
Replay(map, key, plan, ts) ==
  IF ts = {} THEN <<>>
  ELSE LET t == CHOOSE u \in ts : \A v \in ts : u <= v
           b == Burst(map, t, key, plan[t])
       IN (t :> b.admitted) @@ Replay(b.map, key, plan, ts \ {t})

(***************************************************************************)
(* C20 as stated.  In every interval of 60 s a sender has at most          *)
(* 2 * RATE_LIMIT = 20 requests admitted, and 20 is reached: some sequence *)
(* of requests of the sender (10 just before resetAt, 10 just after) has   *)
(* 20 of them admitted within 60 s.                                        *)
(***************************************************************************)
C20_TwentyReachable ==
  /\ MostIn60s(admissions.at) <= 2 * RATE_LIMIT
  /\ \E plan \in Plans :
       MostIn60s(Replay(<<>>, admissions.key, plan, Times)) = 2 * RATE_LIMIT

(***************************************************************************)
(* What the limiter gives where C20 says 20: in every interval of 60 s a   *)
(* sender has at most 2 * RATE_LIMIT - 1 = 19 requests admitted.  The      *)
(* request that opens a window is admitted RATE_WINDOW_MS before the       *)
(* window's resetAt, and the next window opens only when the clock has     *)
(* passed resetAt, so the ten admissions of a window and an admission of   *)
(* the next never lie within 60 s.  19 is reached: 9 admitted at resetAt   *)
(* and 10 one millisecond later.                                           *)
(***************************************************************************)
C20_AtMostNineteen ==
  MostIn60s(admissions.at) <= 2 * RATE_LIMIT - 1

\* 9 requests admitted at resetAt, 10 a millisecond later
C20_Witness ==
  /\ admissions.at[RATE_WINDOW_MS] = RATE_LIMIT - 1
  /\ admissions.at[RATE_WINDOW_MS + 1] = RATE_LIMIT
  /\ AdmittedIn(admissions.at, RATE_WINDOW_MS) = 2 * RATE_LIMIT - 1
  /\ rateLimitMap[admissions.key] = [count |-> RATE_LIMIT, resetAt |-> 2 * RATE_WINDOW_MS + 1]

(***************************************************************************)
(* The audit events of an exchange that report a failure: the log calls of *)
(* level warn or error that carry the request id; and the message the      *)
(* handler logs for each error it answers with.                            *)
(***************************************************************************)
FailureEvents(x) ==
  {i \in 1..Len(x.logs) :
     x.logs[i].level \in {"warn", "error"} /\ "request_id" \in x.logs[i].context}

EventFor(error) ==
  CASE error = "Invalid transaction" -> {"Failed to deserialize transaction"}
    [] error = "Transaction must be sponsored" -> {"Transaction not sponsored"}
    [] error = "Service not configured" -> {"Sponsor key not configured"}
    [] error = "Internal server error" -> {"Unexpected error"}
    [] OTHER -> {error}

(***************************************************************************)
(* C21 as stated.  Every error outcome of POST /relay is logged: a request *)
(* answered with an error (bad request, malformed, not sponsored, rate     *)
(* limited, not configured, sponsor failure, broadcast failure, broadcast  *)
(* rejection, internal error) has, by the time the response is returned,   *)
(* a log call of level warn or error for that failure, carrying the        *)
(* request id.                                                             *)
(***************************************************************************)
C21_EveryErrorLogged ==
  (RelayEnded(last) /\ last.result = "response" /\ "error" \in DOMAIN last.payload) =>
    \E i \in FailureEvents(last) : last.logs[i].message \in EventFor(last.payload.error)

(***************************************************************************)
(* C22.  Termination: when request.json(), sponsorTransaction and          *)
(* broadcastTransaction each return or throw in the end, every request     *)
(* gets its response; fetch returns once, with a response, and never waits *)
(* for a log call.  The pipeline has no loop: every step of a request      *)
(* takes it one await further or ends it.                                  *)
(***************************************************************************)
Stage(pc) ==
  CASE pc = "idle" -> 0
    [] pc = "json" -> 1
    [] pc = "sponsor" -> 2
    [] pc = "broadcast" -> 3
    [] OTHER -> 4

C22_Termination ==
  /\ [](last.pc = "done" => last.result = "response")
  /\ [][\A s \in Slots :
          inflight'[s] # inflight[s] =>
            \/ inflight'[s] = Idle
            \/ Stage(inflight'[s].pc) > Stage(inflight[s].pc)]_vars
  /\ \A s \in Slots : (inflight[s].pc # "idle") ~> (inflight[s].pc = "idle")

\* a request that went through the three awaits was answered while another was
\* still in flight; its log calls were issued and none was waited for
C22_Witness ==
  /\ RelayEnded(last)
  /\ last.result = "response"
  /\ last.broadcast # NoBroadcast
  /\ Len(last.logs) >= 2
  /\ \A i \in 1..Len(last.logs) : last.logs[i].outcome = "promise"
  /\ \E s \in Slots : inflight[s].pc # "idle"

(***************************************************************************)
(* C23.  An admitted request keeps its rate-limit slot whatever happens to *)
(* it afterwards: the step that admits it counts it, also when the same    *)
(* step answers "Service not configured"; the steps after the sponsor call *)
(* and after the broadcast call leave the table alone, whether they fail   *)
(* or not.  No step removes an entry or lowers the count of a window, so   *)
(* after 10 admitted requests that failed the 11th of the window is        *)
(* answered 429.                                                           *)
(***************************************************************************)
C23_AdmissionConsumesSlot ==
  [][/\ \A k \in DOMAIN rateLimitMap :
          /\ k \in DOMAIN rateLimitMap'
          /\ rateLimitMap'[k].resetAt >= rateLimitMap[k].resetAt
          /\ rateLimitMap'[k].resetAt = rateLimitMap[k].resetAt =>
               rateLimitMap'[k].count >= rateLimitMap[k].count
     /\ BeforeExchange.pc \in {"sponsor", "broadcast"} => rateLimitMap' = rateLimitMap
     /\ (BeforeExchange.pc = "json" /\ last'.admit = "admitted") =>
          LET k == last'.senderHex
          IN rateLimitMap'[k].count =
               IF k \in DOMAIN rateLimitMap /\ now <= rateLimitMap[k].resetAt
               THEN rateLimitMap[k].count + 1
               ELSE 1]_vars

\* with no sponsor key every admitted request fails; the 11th of the window got 429
C23_Witness ==
  /\ KeyMissing(env.SPONSOR_PRIVATE_KEY)
  /\ RelayEnded(last)
  /\ last.ord = RATE_LIMIT + 1
  /\ last.status = 429
  /\ rateLimitMap[last.senderHex].count = RATE_LIMIT

(***************************************************************************)
(* C24.  Rate-limit keys are independent: a call of checkRateLimit for one *)
(* sender, admitted or rejected, leaves the entry of every other sender as *)
(* it was; its answer depends on the sender's own entry alone, so a        *)
(* request is rejected only when its own sender's window is used up; and   *)
(* two signers share a counter exactly when their bytes give the same hex  *)
(* key, which for different signers they never do.                         *)
(***************************************************************************)
Only(map, k) == [a \in DOMAIN map \cap {k} |-> map[a]]

C24_KeysIndependent ==
  [][(BeforeExchange.pc = "json" /\ HasCall(last', "checkRateLimit")) =>
       LET k == last'.senderHex
       IN /\ k = SenderHex(last'.tx.signer)
          /\ \A c \in Signers : (SenderHex(<<c>>) = k) <=> (<<c>> = last'.tx.signer)
          /\ DOMAIN rateLimitMap' = DOMAIN rateLimitMap \cup {k}
          /\ \A b \in DOMAIN rateLimitMap \ {k} : rateLimitMap'[b] = rateLimitMap[b]
          /\ (last'.admit = "admitted") <=> checkRateLimit(Only(rateLimitMap, k), now, k).admit
          /\ last'.admit = "rejected" =>
               /\ k \in DOMAIN rateLimitMap
               /\ rateLimitMap[k].count >= RATE_LIMIT
               /\ now <= rateLimitMap[k].resetAt]_vars

\* a request of one sender was admitted while the other sender's window was used up
C24_Witness ==
  /\ IsRelay(last)
  /\ last.admit = "admitted"
  /\ last.tx.signer = <<"b">>
  /\ last.senderHex = SenderHex(<<"b">>)
  /\ Exhausted(SenderHex(<<"a">>))
  /\ rateLimitMap[SenderHex(<<"b">>)].count < RATE_LIMIT
====
